---- MODULE Spec2Model ----
(***************************************************************************)
(* A model of music_tagger.py: batching of the track list, the retrying     *)
(* metadata resolver (get_chatgpt_metadata), the thread pool that runs one  *)
(* resolver per batch, the merge of the partial results in the main thread, *)
(* and the per-track reconciliation that flattens a result into tags and    *)
(* hands them to update_genre_tag.                                          *)
(*                                                                          *)
(* Strings are modelled as sequences of atoms (a Text).  The atom SEP is one *)
(* occurrence of the three characters ' - ', the atom SPACE is one blank;   *)
(* every other atom is a run of characters that holds neither.  Times are   *)
(* in milliseconds.                                                         *)
(***************************************************************************)
EXTENDS Integers, Sequences, FiniteSets, TLC

VARIABLES
    api_key,        \* TRUE iff --api-key / OPENAI_API_KEY gives a non-empty key
    workers,        \* args.workers
    dry_run,        \* args.dry_run
    all_files,      \* main's list all_files, each file with what extract_metadata returns for it
    tracks,         \* main's list `tracks`
    batch_size,     \* main's local batch_size
    batches,        \* main's list `batches` of (batch, batch_num)
    total_batches,  \* main's total_batches
    pc,             \* position of the main thread
    fut,            \* batch_num -> state of the future / resolver of that batch
    merge_log,      \* batch numbers in the order as_completed handed them to main
    ai_metadata,    \* main's dict ai_metadata
    idx,            \* number of tracks the reporting loop has finished
    files,          \* file_path -> the audio file on disk
    reports,        \* what main printed for each track, in order
    upd,            \* the lists of the last update_genre_tag call (history)
    service         \* which of its behaviours the service shows in this run

vars == <<api_key, workers, dry_run, all_files, tracks, batch_size, batches,
          total_batches, pc, fut, merge_log, ai_metadata, idx, files, reports, upd,
          service>>

-----------------------------------------------------------------------------
(* Bounds of the model *)

MaxBatches == 2         \* the main run has at most this many batches
MaxWorkers == 2         \* args.workers ranges over 0..MaxWorkers
MaxLen == 24            \* longest track list of the batching specification
MaxBatchSize == 4       \* batch sizes 1..MaxBatchSize in the batching specification

-----------------------------------------------------------------------------
(* Python values *)

SEP == " - "
SPACE == " "

Min(a, b) == IF a <= b THEN a ELSE b
Max(a, b) == IF a >= b THEN a ELSE b

Slice_short(s, i, j) == SubSeq(s, i + 1, Min(j, Len(s)) - 1)
\* a[i:j] of a Python list, 0 <= i <= j
Slice(s, i, j) == SubSeq(s, i + 1, Min(j, Len(s)))

EmptyDict == [k \in {} |-> <<>>]

DictUpdate_setdefault(d, m) ==
    [k \in (DOMAIN d) \cup (DOMAIN m) |-> IF k \in DOMAIN d THEN d[k] ELSE m[k]]
\* d.update(m) for two dicts
DictUpdate(d, m) ==
    [k \in (DOMAIN d) \cup (DOMAIN m) |-> IF k \in DOMAIN m THEN m[k] ELSE d[k]]

\* JSON values as json.loads builds them: every value is [t, v]
JStr(text) == [t |-> "str", v |-> text]
JNum(digits) == [t |-> "num", v |-> <<digits>>]
JNull == [t |-> "null", v |-> <<>>]
JList(items) == [t |-> "list", v |-> items]
JObj(pairs) == [t |-> "obj", v |-> pairs]      \* pairs: <<[k |-> name, val |-> value]>>
Pair(name, value) == [k |-> name, val |-> value]

\* a == b for two hashable JSON values
JEq(a, b) == a.t = b.t /\ a.v = b.v

RECURSIVE FromKeys_adjacent(_, _)
FromKeys_adjacent(xs, acc) ==
    IF xs = <<>> THEN acc
    ELSE IF acc # <<>> /\ JEq(acc[Len(acc)], Head(xs))
         THEN FromKeys_adjacent(Tail(xs), acc)
         ELSE FromKeys_adjacent(Tail(xs), Append(acc, Head(xs)))

RECURSIVE FromKeys(_, _)
\* list(dict.fromkeys(xs)), acc is the dict built so far
FromKeys(xs, acc) ==
    IF xs = <<>> THEN acc
    ELSE IF \E i \in 1..Len(acc) : JEq(acc[i], Head(xs))
         THEN FromKeys(Tail(xs), acc)
         ELSE FromKeys(Tail(xs), Append(acc, Head(xs)))

Unique(xs) == FromKeys(xs, <<>>)

-----------------------------------------------------------------------------
(* Batching: main, lines 349-358 *)

BatchSize == 10

TotalBatches_floor(n, B) == n \div B
TotalBatches(n, B) == (n + B - 1) \div B

RECURSIVE CreateBatchesFrom(_, _, _)
\* for i in range(i, len(ts), B): batches.append((ts[i:i + B], i // B + 1))
CreateBatchesFrom(ts, B, i) ==
    IF i >= Len(ts) THEN <<>>
    ELSE <<[batch |-> Slice(ts, i, i + B), batch_num |-> (i \div B) + 1]>>
         \o CreateBatchesFrom(ts, B, i + B)

CreateBatches(ts, B) == CreateBatchesFrom(ts, B, 0)

-----------------------------------------------------------------------------
(* The text of an exception, str(e): a sequence of tokens, a word or a number *)

Word(w) == [w |-> w, n |-> 0]
Num(n) == [w |-> "#", n |-> n]
IsNum(tok) == tok.w = "#"

MaxDigits == 6

RECURSIVE Pow10(_)
Pow10(k) == IF k = 0 THEN 1 ELSE 10 * Pow10(k - 1)

\* "429" in str(n): three consecutive decimal digits of n are 4, 2, 9
Has429(n) == \E k \in 0..MaxDigits : (n \div Pow10(k)) % 1000 = 429

\* sub in error_str, for a phrase that is one word of the text
HasWord(msg, w) == \E i \in 1..Len(msg) : msg[i].w = w

\* "429" in error_str
Has429Text(msg) == \E i \in 1..Len(msg) : IsNum(msg[i]) /\ Has429(msg[i].n)

\* str(e) of the json.JSONDecodeError raised at index pos of a document with nl
\* newlines before pos, the last of them at index bol (-1 when there is none)
JSONDecodeErrorText(pos, nl, bol) ==
    <<Word("Expecting value: line"), Num(nl + 1), Word("column"), Num(pos - bol),
      Word("(char"), Num(pos), Word(")")>>

NoneStripText == <<Word("'NoneType' object has no attribute 'strip'")>>

-----------------------------------------------------------------------------
(* get_chatgpt_metadata, lines 119-171 *)

max_retries_plus_one == 5 + 1
max_retries == 5
base_delay == 1000

RECURSIVE Pow2(_)
Pow2(k) == IF k = 0 THEN 1 ELSE 2 * Pow2(k - 1)

\* line 145
IsRateLimit(msg) == HasWord(msg, "rate_limit_exceeded") \/ Has429Text(msg)

\* re.search(r'Please try again in (\d+)ms', error_str): the matches, in order
SuggestedMatches(msg) ==
    {i \in 1..(Len(msg) - 2) :
        /\ msg[i].w = "Please try again in"
        /\ IsNum(msg[i + 1])
        /\ msg[i + 2].w = "ms"}

WaitTime_shrinking(attempt, jitter, msg) ==
    base_delay * Pow2(max_retries - 1 - attempt) + jitter
\* lines 148-159: the time slept after the failure of attempt `attempt`
WaitTime(attempt, jitter, msg) ==
    LET wait_time == base_delay * Pow2(attempt) + jitter
    IN  IF HasWord(msg, "Please try again in") /\ SuggestedMatches(msg) # {}
        THEN LET i == CHOOSE j \in SuggestedMatches(msg) :
                          \A h \in SuggestedMatches(msg) : j <= h
             IN  Max(wait_time, msg[i + 1].n)
        ELSE wait_time

\* lines 131-141: the try body after the service answered with `resp`;
\* either it returns a dict or it raises
ParseResponse(resp) ==
    IF resp.content_none
    THEN [raised |-> TRUE, msg |-> NoneStripText, value |-> EmptyDict]
    ELSE LET start_idx == resp.open
             end_idx == resp.close + 1
         IN  IF start_idx >= 0 /\ end_idx > start_idx
             THEN IF resp.json.ok
                  THEN [raised |-> FALSE, msg |-> <<>>, value |-> resp.json.value]
                  ELSE [raised |-> TRUE,
                        msg |-> JSONDecodeErrorText(resp.json.pos, resp.json.nl, resp.json.bol),
                        value |-> EmptyDict]
             ELSE [raised |-> FALSE, msg |-> <<>>, value |-> EmptyDict]

HandleException_retry_all(attempt, msg) ==
    IF attempt < max_retries - 1 THEN "retry" ELSE "return"
\* lines 143-169: what the except clause does with the exception text
\* "retry" sleeps and continues the loop, "return" returns {}
HandleException(attempt, msg) ==
    IF IsRateLimit(msg)
    THEN IF attempt < max_retries - 1 THEN "retry" ELSE "return"
    ELSE "return"

\* one iteration of the loop of line 122 on the service outcome `o`
Attempt(attempt, o, jitter) ==
    LET body == IF o.kind = "error"
                THEN [raised |-> TRUE, msg |-> o.msg, value |-> EmptyDict]
                ELSE ParseResponse(o.resp)
    IN  IF ~body.raised
        THEN [act |-> "return", value |-> body.value, wait_time |-> 0, nojitter |-> 0]
        ELSE IF HandleException(attempt, body.msg) = "retry"
             THEN [act |-> "retry", value |-> EmptyDict,
                   wait_time |-> WaitTime(attempt, jitter, body.msg),
                   nojitter |-> WaitTime(attempt, 0, body.msg)]
             ELSE [act |-> "return", value |-> EmptyDict, wait_time |-> 0, nojitter |-> 0]

-----------------------------------------------------------------------------
(* Text: ' - '.join, str.split(' - ') and str.strip *)

RECURSIVE Join(_)
\* ' - '.join(texts)
Join(texts) ==
    IF texts = <<>> THEN <<>>
    ELSE IF Len(texts) = 1 THEN texts[1]
    ELSE texts[1] \o <<SEP>> \o Join(Tail(texts))

RECURSIVE SplitFrom(_, _)
\* text.split(' - '), cur is the piece being read
SplitFrom(text, cur) ==
    IF text = <<>> THEN <<cur>>
    ELSE IF Head(text) = SEP THEN <<cur>> \o SplitFrom(Tail(text), <<>>)
    ELSE SplitFrom(Tail(text), Append(cur, Head(text)))

Split(text) == SplitFrom(text, <<>>)

RECURSIVE LStrip(_)
LStrip(text) ==
    IF text # <<>> /\ Head(text) = SPACE THEN LStrip(Tail(text)) ELSE text

RECURSIVE RStrip(_)
RStrip(text) ==
    IF text # <<>> /\ text[Len(text)] = SPACE
    THEN RStrip(SubSeq(text, 1, Len(text) - 1)) ELSE text

Strip(text) == RStrip(LStrip(text))

\* [g.strip() for g in existing_text.split(' - ')]
SplitStrip(text) == [i \in 1..Len(Split(text)) |-> Strip(Split(text)[i])]

-----------------------------------------------------------------------------
(* update_genre_tag, lines 174-240.  An audio file is                        *)
(* [type, has_add_tags, tags, broken]: the name of its mutagen class,       *)
(* whether the object has an add_tags attribute, its tag fields (field name *)
(* -> text; a list-valued field is its first element) and whether opening   *)
(* or saving it fails.                                                      *)

TCON == "TCON"
GEN == "(c)gen"         \* the field '\xa9gen'
GENRE == "GENRE"

\* lines 182-209
ExistingGenres(f) ==
    LET has(field) == field \in DOMAIN f.tags
        read(field) == IF f.tags[field] # <<>> THEN SplitStrip(f.tags[field]) ELSE <<>>
    IN  IF f.has_add_tags
        THEN IF has(TCON) THEN read(TCON) ELSE <<>>
        ELSE IF has(TCON)
             THEN IF f.tags[TCON] # <<>> /\ Head(f.tags[TCON]) # "["
                  THEN SplitStrip(f.tags[TCON]) ELSE <<>>
        ELSE IF has(GEN) THEN read(GEN)
        ELSE IF has(GENRE) THEN read(GENRE)
        ELSE <<>>

\* lines 219-233: the field the genre string is written to
GenreField(f) ==
    IF f.type = "MP4" THEN GEN
    ELSE IF f.type \in {"MP3", "AIFF"} \/ f.has_add_tags THEN TCON
    ELSE IF TCON \in DOMAIN f.tags THEN TCON
    ELSE GENRE

\* lines 212-213
MergeTags(existing_genres, tags) == Unique(existing_genres \o tags)

AllStr(xs) == \A i \in 1..Len(xs) : xs[i].t = "str"
Hashable(xs) == \A i \in 1..Len(xs) : xs[i].t \notin {"list", "obj"}
TextsOf(xs) == [i \in 1..Len(xs) |-> xs[i].v]
StrsOf(texts) == [i \in 1..Len(texts) |-> JStr(texts[i])]

\* the whole function: [ok, file, existing, unique]
UpdateGenreTag(f, tags) ==
    LET existing_genres == StrsOf(ExistingGenres(f))
        failed == [ok |-> FALSE, file |-> f, existing |-> <<>>, unique |-> <<>>]
    IN  IF f.broken THEN failed
        ELSE IF ~Hashable(tags) THEN failed
        ELSE LET unique_tags == MergeTags(existing_genres, tags)
             IN  IF ~AllStr(unique_tags) THEN failed
                 ELSE [ok |-> TRUE,
                       file |-> [f EXCEPT !.tags =
                                   [x \in DOMAIN f.tags \cup {GenreField(f)} |->
                                       IF x = GenreField(f)
                                       THEN Join(TextsOf(unique_tags))
                                       ELSE f.tags[x]]],
                       existing |-> existing_genres,
                       unique |-> unique_tags]

-----------------------------------------------------------------------------
(* The reporting loop of main, lines 381-419 *)

Unknown == <<"Unknown">>

\* track['metadata'].get(name, 'Unknown')
MetaGet(track, name) ==
    IF name \in DOMAIN track.metadata THEN track.metadata[name] ELSE Unknown

\* line 384: f"{artist} - {title}"
TrackKey(track) == MetaGet(track, "artist") \o <<SEP>> \o MetaGet(track, "title")

\* name in m: "T", "F", or "err" (TypeError)
PyIn(name, m) ==
    IF m.t = "obj" THEN IF \E i \in 1..Len(m.v) : m.v[i].k = name THEN "T" ELSE "F"
    ELSE IF m.t = "list"
         THEN IF \E i \in 1..Len(m.v) : JEq(m.v[i], JStr(<<name>>)) THEN "T" ELSE "F"
    ELSE IF m.t = "str" THEN IF \E i \in 1..Len(m.v) : m.v[i] = name THEN "T" ELSE "F"
    ELSE "err"

\* m[name] for a dict m that holds name: the last pair of that name
PyGet(m, name) ==
    LET i == CHOOSE j \in 1..Len(m.v) :
                 m.v[j].k = name /\ \A h \in (j + 1)..Len(m.v) : m.v[h].k # name
    IN  m.v[i].val

Iterable(x) == x.t \in {"list", "str", "obj"}

RECURSIVE KeysOf(_, _)
KeysOf(pairs, acc) ==
    IF pairs = <<>> THEN acc
    ELSE IF \E i \in 1..Len(acc) : acc[i].v = <<Head(pairs).k>>
         THEN KeysOf(Tail(pairs), acc)
         ELSE KeysOf(Tail(pairs), Append(acc, JStr(<<Head(pairs).k>>)))

\* list(x) for an iterable x: the items of a list, the characters of a str,
\* the keys of a dict
PyIter(x) ==
    IF x.t = "list" THEN x.v
    ELSE IF x.t = "str" THEN [i \in 1..Len(x.v) |-> JStr(<<x.v[i]>>)]
    ELSE KeysOf(x.v, <<>>)

Raised == [err |-> TRUE, tags |-> <<>>]
Tags(ts) == [err |-> FALSE, tags |-> ts]

\* tags.extend(x)
Extend(tags, x) == IF Iterable(x) THEN Tags(tags \o PyIter(x)) ELSE Raised

\* lines 396-399
AddRegion(tags, x) == IF x.t = "list" THEN Extend(tags, x) ELSE Tags(Append(tags, x))

\* line 403
AddEra(tags, x) == Tags(Append(tags, x))

\* the statement guarded by `if name in metadata:` for each of the three fields
UseField(name, tags, x) ==
    IF name = "genres" THEN Extend(tags, x)
    ELSE IF name = "region" THEN AddRegion(tags, x)
    ELSE AddEra(tags, x)

\* `if name in metadata:` followed by the use of metadata[name]
WithField(metadata, name, r) ==
    IF r.err THEN r
    ELSE IF PyIn(name, metadata) = "err" THEN Raised
    ELSE IF PyIn(name, metadata) = "F" THEN r
    ELSE IF metadata.t # "obj" THEN Raised
    ELSE UseField(name, r.tags, PyGet(metadata, name))

\* lines 387-403
FlattenTags(metadata) ==
    WithField(metadata, "era",
        WithField(metadata, "region",
            WithField(metadata, "genres", Tags(<<>>))))

ReportTrack_writes_empty(track, metadata_of, dry, f) ==
    LET out(o, g, e, t, u) ==
            [outcome |-> o, file |-> g, existing |-> e, tags |-> t, unique |-> u]
        key == TrackKey(track)
    IN  IF key \notin DOMAIN metadata_of THEN out("no_ai_metadata", f, <<>>, <<>>, <<>>)
        ELSE LET r == FlattenTags(metadata_of[key])
             IN  IF r.err THEN out("raised", f, <<>>, <<>>, <<>>)
                 ELSE IF ~Hashable(r.tags) THEN out("raised", f, <<>>, <<>>, <<>>)
                 ELSE LET unique_tags == Unique(r.tags)
                      IN  IF dry
                          THEN IF AllStr(unique_tags)
                               THEN out("would_add", f, <<>>, unique_tags, <<>>)
                               ELSE out("raised", f, <<>>, <<>>, <<>>)
                          ELSE LET u == UpdateGenreTag(f, unique_tags)
                               IN  IF u.ok
                                   THEN out("added", u.file, u.existing, unique_tags, u.unique)
                                   ELSE out("failed", f, <<>>, unique_tags, <<>>)

\* lines 386-419 for one track: [outcome, file, existing, tags, unique];
\* the outcome "raised" is an exception that leaves main
ReportTrack(track, metadata_of, dry, f) ==
    LET out(o, g, e, t, u) ==
            [outcome |-> o, file |-> g, existing |-> e, tags |-> t, unique |-> u]
        key == TrackKey(track)
    IN  IF key \notin DOMAIN metadata_of THEN out("no_ai_metadata", f, <<>>, <<>>, <<>>)
        ELSE LET r == FlattenTags(metadata_of[key])
             IN  IF r.err THEN out("raised", f, <<>>, <<>>, <<>>)
                 ELSE IF r.tags = <<>> THEN out("no_tags", f, <<>>, <<>>, <<>>)
                 ELSE IF ~Hashable(r.tags) THEN out("raised", f, <<>>, <<>>, <<>>)
                 ELSE LET unique_tags == Unique(r.tags)
                      IN  IF dry
                          THEN IF AllStr(unique_tags)
                               THEN out("would_add", f, <<>>, unique_tags, <<>>)
                               ELSE out("raised", f, <<>>, <<>>, <<>>)
                          ELSE LET u == UpdateGenreTag(f, unique_tags)
                               IN  IF u.ok
                                   THEN out("added", u.file, u.existing, unique_tags, u.unique)
                                   ELSE out("failed", f, <<>>, unique_tags, <<>>)

-----------------------------------------------------------------------------
(* Inputs of the main run *)

Text(a) == <<a>>
KeyX == <<"A", SEP, "X">>               \* "A - X"
KeyY == <<"Unknown", SEP, "Y">>         \* "Unknown - Y"

\* what extract_metadata returns for the i-th file: nothing for the first, then
\* tracks of the keys "A - X" and "Unknown - Y" in turn, every fifth "A - Z"
MetadataAt(i) ==
    IF i = 1 THEN EmptyDict
    ELSE IF i % 5 = 0 THEN [artist |-> Text("A"), title |-> Text("Z"), album |-> Text("L")]
    ELSE IF i % 2 = 0 THEN [artist |-> Text("A"), title |-> Text("X")]
    ELSE [title |-> Text("Y"), album |-> Text("L")]

\* the i-th file on disk: MP4 files with a genre, MP3 files with and without one
FileAt(i) ==
    IF i % 3 = 0
    THEN [type |-> "MP4", has_add_tags |-> TRUE, broken |-> FALSE,
          tags |-> [x \in {GEN} |-> <<"Techno">>]]
    ELSE IF i % 4 = 0
    THEN [type |-> "MP3", has_add_tags |-> TRUE, broken |-> (i = 4),
          tags |-> [x \in {TCON} |-> <<"Techno", SEP, "90s">>]]
    ELSE [type |-> "MP3", has_add_tags |-> TRUE, broken |-> FALSE,
          tags |-> [x \in {} |-> <<>>]]

\* the number of files that gives b batches: one unreadable file, one track in
\* the last batch
FilesFor(b) == (b - 1) * BatchSize + 2

\* the numbers of files of the runs: none, one unreadable file, and enough files
\* for 1..MaxBatches batches
FileCounts == {0, 1} \cup {FilesFor(b) : b \in 1..MaxBatches}

House == JStr(<<"House">>)
Techno == JStr(<<"Techno">>)
TagsA == JObj(<<Pair("genres", JList(<<House, Techno>>)),
                Pair("region", JList(<<JStr(<<"Detroit">>)>>)),
                Pair("era", JStr(<<"90s">>))>>)
TagsB == JObj(<<Pair("genres", JList(<<Techno>>)),
                Pair("region", JStr(<<"UK">>)),
                Pair("era", JStr(<<"90s">>))>>)

\* the JSON objects the service returns in the main run
Dicts ==
    << [k \in {KeyX} |-> TagsA],
       [k \in {KeyX, KeyY} |-> IF k = KeyX THEN TagsB ELSE JObj(<<>>)],
       [k \in {KeyY} |-> JObj(<<Pair("era", JNull)>>)],
       [k \in {KeyX} |-> JNull] >>

NoJson == [ok |-> FALSE, value |-> EmptyDict, pos |-> 0, nl |-> 0, bol |-> -1]
Content(open, close, json) ==
    [kind |-> "response", msg |-> <<>>,
     resp |-> [content_none |-> FALSE, open |-> open, close |-> close, json |-> json]]
ContentNone ==
    [kind |-> "response", msg |-> <<>>,
     resp |-> [content_none |-> TRUE, open |-> -1, close |-> -1, json |-> NoJson]]
Valid(d) == [ok |-> TRUE, value |-> d, pos |-> 0, nl |-> 0, bol |-> -1]
Invalid(pos) == [ok |-> FALSE, value |-> EmptyDict, pos |-> pos, nl |-> 0, bol |-> -1]
Error(msg) == [kind |-> "error", msg |-> msg, resp |-> ContentNone.resp]

RateLimitError == Error(<<Word("Error code:"), Num(429), Word("rate_limit_exceeded")>>)
AuthError == Error(<<Word("Error code:"), Num(401), Word("invalid_api_key")>>)
DictOutcomes == [i \in 1..Len(Dicts) |-> Content(3, 90, Valid(Dicts[i]))]

\* what one call of client.chat.completions.create may do: the behaviours of
\* the runs that exercise the pool ...
PoolOutcomes ==
    <<RateLimitError, AuthError, Content(-1, -1, NoJson)>> \o DictOutcomes

\* ... and those of the runs that exercise one resolver
ResolverOutcomes ==
    << RateLimitError,
       Error(<<Word("Error code:"), Num(429), Word("Please try again in"), Num(3000), Word("ms")>>),
       Error(<<Word("Error code:"), Num(429), Word("Please try again in"), Num(20), Word("s")>>),
       Error(<<Word("rate_limit_exceeded"), Word("Please try again in"), Num(500), Word("ms")>>),
       AuthError,
       Content(-1, -1, NoJson),
       Content(5, 2, NoJson),
       Content(0, 9, Invalid(1)),
       Content(0, 440, Invalid(428)),
       ContentNone >>
    \o DictOutcomes

Outcomes(svc) == IF svc = "resolver" THEN ResolverOutcomes ELSE PoolOutcomes

\* random.uniform(0, 1), in milliseconds
Jitters == {0, 999}

-----------------------------------------------------------------------------
(* The run *)

NoUpdate == [existing |-> <<>>, tags |-> <<>>, unique |-> <<>>]

NewFuture ==
    [st |-> "unsubmitted", attempt |-> 0, value |-> EmptyDict, calls |-> 0,
     sleeps |-> 0, wait_time |-> 0, nojitter |-> 0, rl_only |-> TRUE,
     parse_failed |-> FALSE, hinted |-> FALSE, other_error |-> FALSE,
     responded |-> FALSE, server_wait |-> 0]

\* the state at the start of main, for runs over `counts` files
InitRun(counts, svc) ==
    /\ api_key \in BOOLEAN
    /\ workers \in 0..MaxWorkers
    /\ dry_run \in BOOLEAN
    /\ \E n \in counts :
          /\ all_files = [i \in 1..n |-> [file_path |-> i, metadata |-> MetadataAt(i)]]
          /\ files = [i \in 1..n |-> FileAt(i)]
    /\ service = svc
    /\ tracks = <<>>
    /\ batch_size = BatchSize
    /\ batches = <<>>
    /\ total_batches = 0
    /\ pc = "start"
    /\ fut = <<>>
    /\ merge_log = <<>>
    /\ ai_metadata = EmptyDict
    /\ idx = 0
    /\ reports = <<>>
    /\ upd = NoUpdate

Init == InitRun(FileCounts, "pool")

RECURSIVE ReadableTracks(_)
\* lines 331-340
ReadableTracks(fs) ==
    IF fs = <<>> THEN <<>>
    ELSE IF DOMAIN Head(fs).metadata # {}
         THEN <<Head(fs)>> \o ReadableTracks(Tail(fs))
         ELSE ReadableTracks(Tail(fs))

\* lines 312-315
CheckApiKey ==
    /\ pc = "start"
    /\ pc' = IF api_key THEN "read" ELSE "exit"
    /\ UNCHANGED <<api_key, workers, dry_run, all_files, tracks, batch_size, batches,
                   total_batches, fut, merge_log, ai_metadata, idx, files, reports, upd,
                   service>>

ReadTracks_no_exit ==
    /\ pc = "read"
    /\ tracks' = ReadableTracks(all_files)
    /\ pc' = "batch"
    /\ UNCHANGED <<api_key, workers, dry_run, all_files, batch_size, batches,
                   total_batches, fut, merge_log, ai_metadata, idx, files, reports, upd,
                   service>>
\* lines 331-344
ReadTracks ==
    /\ pc = "read"
    /\ tracks' = ReadableTracks(all_files)
    /\ pc' = IF tracks' = <<>> THEN "exit" ELSE "batch"
    /\ UNCHANGED <<api_key, workers, dry_run, all_files, batch_size, batches,
                   total_batches, fut, merge_log, ai_metadata, idx, files, reports, upd,
                   service>>

\* lines 349-358
MakeBatches ==
    /\ pc = "batch"
    /\ total_batches' = TotalBatches(Len(tracks), batch_size)
    /\ batches' = CreateBatches(tracks, batch_size)
    /\ pc' = "pool"
    /\ UNCHANGED <<api_key, workers, dry_run, all_files, tracks, batch_size,
                   fut, merge_log, ai_metadata, idx, files, reports, upd, service>>

\* line 363: ThreadPoolExecutor(max_workers=args.workers) raises ValueError for
\* max_workers <= 0
OpenPool ==
    /\ pc = "pool"
    /\ IF workers <= 0
       THEN pc' = "raised" /\ fut' = fut
       ELSE pc' = "submit" /\ fut' = [b \in 1..Len(batches) |-> NewFuture]
    /\ UNCHANGED <<api_key, workers, dry_run, all_files, tracks, batch_size, batches,
                   total_batches, merge_log, ai_metadata, idx, files, reports, upd,
                   service>>

Submitted == {b \in DOMAIN fut : fut[b].st # "unsubmitted"}
Running == {b \in DOMAIN fut : fut[b].st = "running"}
Finished == {b \in DOMAIN fut : fut[b].st \in {"done", "raised"}}
Merged == {merge_log[i] : i \in 1..Len(merge_log)}

\* lines 365-368: executor.submit for the next batch of `batches`
Submit ==
    /\ pc = "submit"
    /\ LET b == Cardinality(Submitted) + 1
       IN  /\ fut' = [fut EXCEPT ![b].st = "pending"]
           /\ pc' = IF b = Len(batches) THEN "collect" ELSE "submit"
    /\ UNCHANGED <<api_key, workers, dry_run, all_files, tracks, batch_size, batches,
                   total_batches, merge_log, ai_metadata, idx, files, reports, upd,
                   service>>

MainUnchanged ==
    UNCHANGED <<api_key, workers, dry_run, all_files, tracks, batch_size, batches,
                total_batches, pc, merge_log, ai_metadata, idx, files, reports, upd,
                service>>

CanStart_unbounded(b) ==
    /\ b \in DOMAIN fut
    /\ fut[b].st = "pending"
    /\ \A c \in DOMAIN fut : c < b => fut[c].st # "pending"
\* a free worker takes the oldest pending batch
CanStart(b) ==
    /\ b \in DOMAIN fut
    /\ fut[b].st = "pending"
    /\ \A c \in DOMAIN fut : c < b => fut[c].st # "pending"
    /\ Cardinality(Running) < workers

\* lines 72-78: process_batch enters get_chatgpt_metadata, the client is built
Start(b) ==
    /\ CanStart(b)
    /\ fut' = [fut EXCEPT ![b].st = "running"]
    /\ MainUnchanged

\* line 78: OpenAI(api_key=api_key) raises, outside every try
StartRaises(b) ==
    /\ CanStart(b)
    /\ fut' = [fut EXCEPT ![b].st = "raised"]
    /\ MainUnchanged

\* the service raised an error that line 145 takes for a rate limit
ServiceRateLimit(o) == o.kind = "error" /\ IsRateLimit(o.msg)

\* the service answered, and the answer holds no JSON object or one json.loads rejects
NoJsonObject(o) ==
    /\ o.kind = "response"
    /\ ~o.resp.content_none
    /\ ~(o.resp.open >= 0 /\ o.resp.close + 1 > o.resp.open /\ o.resp.json.ok)

\* the error text carries a wait time that line 154 extracts
CarriesWait(o) ==
    o.kind = "error" /\ HasWord(o.msg, "Please try again in") /\ SuggestedMatches(o.msg) # {}

\* the service raised an error that line 145 does not take for a rate limit
ServiceOtherError(o) == o.kind = "error" /\ ~IsRateLimit(o.msg)

\* the wait the error text asks for, in milliseconds, whatever its unit; 0
\* when the text asks for none
ServerWait(o) ==
    IF o.kind = "error" /\ \E i \in 1..(Len(o.msg) - 2) :
                              /\ o.msg[i].w = "Please try again in"
                              /\ IsNum(o.msg[i + 1])
                              /\ o.msg[i + 2].w \in {"ms", "s"}
    THEN LET i == CHOOSE j \in 1..(Len(o.msg) - 2) :
                      /\ o.msg[j].w = "Please try again in"
                      /\ IsNum(o.msg[j + 1])
                      /\ o.msg[j + 2].w \in {"ms", "s"}
         IN  IF o.msg[i + 2].w = "s" THEN 1000 * o.msg[i + 1].n ELSE o.msg[i + 1].n
    ELSE 0

\* the resolver state after one iteration of the loop on outcome o; the
\* locals wait_time and error_str end with the call
AfterAttempt(f, o, jitter) ==
    LET a == Attempt(f.attempt, o, jitter)
        g == [f EXCEPT !.calls = f.calls + 1,
                       !.rl_only = f.rl_only /\ ServiceRateLimit(o),
                       !.parse_failed = f.parse_failed \/ NoJsonObject(o),
                       !.other_error = f.other_error \/ ServiceOtherError(o),
                       !.responded = f.responded \/ o.kind = "response"]
    IN  IF a.act = "retry"
        THEN [g EXCEPT !.attempt = f.attempt + 1,
                       !.sleeps = f.sleeps + 1,
                       !.wait_time = a.wait_time,
                       !.nojitter = a.nojitter,
                       !.hinted = f.hinted \/ CarriesWait(o),
                       !.server_wait = ServerWait(o)]
        ELSE [g EXCEPT !.st = "done", !.value = a.value, !.wait_time = 0,
                       !.nojitter = 0, !.server_wait = 0]

Call_merging(b) ==
    /\ b \in DOMAIN fut
    /\ fut[b].st = "running"
    /\ fut[b].attempt < max_retries
    /\ \E i \in 1..Len(Outcomes(service)), jitter \in Jitters :
          fut' = [fut EXCEPT ![b] = AfterAttempt(fut[b], Outcomes(service)[i], jitter)]
    /\ ai_metadata' = IF fut'[b].st = "done"
                      THEN DictUpdate(ai_metadata, fut'[b].value)
                      ELSE ai_metadata
    /\ UNCHANGED <<api_key, workers, dry_run, all_files, tracks, batch_size, batches,
                   total_batches, pc, merge_log, idx, files, reports, upd, service>>
\* lines 122-171: one attempt of the resolver of batch b: the request, the
\* parse or the except clause, and the sleep before the next attempt.  The
\* loop never runs out (line 171): the last attempt returns.
Call(b) ==
    /\ b \in DOMAIN fut
    /\ fut[b].st = "running"
    /\ fut[b].attempt < max_retries
    /\ \E i \in 1..Len(Outcomes(service)), jitter \in Jitters :
          fut' = [fut EXCEPT ![b] = AfterAttempt(fut[b], Outcomes(service)[i], jitter)]
    /\ MainUnchanged

Merge_uncaught(b) ==
    /\ pc = "collect"
    /\ b \in Finished \ Merged
    /\ IF fut[b].st = "done"
       THEN /\ merge_log' = Append(merge_log, b)
            /\ ai_metadata' = DictUpdate(ai_metadata, fut[b].value)
            /\ pc' = pc
       ELSE /\ pc' = "raised"
            /\ UNCHANGED <<merge_log, ai_metadata>>
    /\ UNCHANGED <<api_key, workers, dry_run, all_files, tracks, batch_size, batches,
                   total_batches, fut, idx, files, reports, upd, service>>
\* lines 371-378: as_completed hands a finished future to main
Merge(b) ==
    /\ pc = "collect"
    /\ b \in Finished \ Merged
    /\ merge_log' = Append(merge_log, b)
    /\ ai_metadata' = IF fut[b].st = "done"
                      THEN DictUpdate(ai_metadata, fut[b].value)
                      ELSE ai_metadata
    /\ UNCHANGED <<api_key, workers, dry_run, all_files, tracks, batch_size, batches,
                   total_batches, pc, fut, idx, files, reports, upd, service>>

ClosePool_early ==
    /\ pc = "collect"
    /\ pc' = "report"
    /\ UNCHANGED <<api_key, workers, dry_run, all_files, tracks, batch_size, batches,
                   total_batches, fut, merge_log, ai_metadata, idx, files, reports, upd,
                   service>>
\* line 378 -> 381: every future was handed out, the with block ends
ClosePool ==
    /\ pc = "collect"
    /\ Merged = DOMAIN fut
    /\ pc' = "report"
    /\ UNCHANGED <<api_key, workers, dry_run, all_files, tracks, batch_size, batches,
                   total_batches, fut, merge_log, ai_metadata, idx, files, reports, upd,
                   service>>

\* lines 381-419: one iteration of the reporting loop
Report ==
    /\ pc = "report"
    /\ idx < Len(tracks)
    /\ LET track == tracks[idx + 1]
           r == ReportTrack(track, ai_metadata, dry_run, files[track.file_path])
       IN  IF r.outcome = "raised"
           THEN /\ pc' = "raised"
                /\ UNCHANGED <<idx, files, reports, upd>>
           ELSE /\ pc' = pc
                /\ idx' = idx + 1
                /\ files' = [files EXCEPT ![track.file_path] = r.file]
                /\ reports' = Append(reports, r.outcome)
                /\ upd' = IF r.outcome = "added"
                          THEN [existing |-> r.existing, tags |-> r.tags, unique |-> r.unique]
                          ELSE upd
    /\ UNCHANGED <<api_key, workers, dry_run, all_files, tracks, batch_size, batches,
                   total_batches, fut, merge_log, ai_metadata, service>>

\* the loop of line 381 ends, main returns
Finish ==
    /\ pc = "report"
    /\ idx = Len(tracks)
    /\ pc' = "done"
    /\ UNCHANGED <<api_key, workers, dry_run, all_files, tracks, batch_size, batches,
                   total_batches, fut, merge_log, ai_metadata, idx, files, reports, upd,
                   service>>

Next ==
    \/ CheckApiKey
    \/ ReadTracks
    \/ MakeBatches
    \/ OpenPool
    \/ Submit
    \/ \E b \in 1..MaxBatches : Start(b)
    \/ \E b \in 1..MaxBatches : StartRaises(b)
    \/ \E b \in 1..MaxBatches : Call(b)
    \/ \E b \in 1..MaxBatches : Merge(b)
    \/ ClosePool
    \/ Report
    \/ Finish

\* the runs of the whole program, over the pool's behaviours of the service
Spec == Init /\ [][Next]_vars

\* the runs with one batch, over every behaviour of the service
InitResolver == InitRun({FilesFor(1)}, "resolver")
SpecResolver == InitResolver /\ [][Next]_vars

-----------------------------------------------------------------------------
(* Batching alone: MakeBatches on track lists of every length up to MaxLen   *)
(* and on the batch sizes 1..MaxBatchSize and BatchSize                      *)

InitBatch ==
    /\ \E n \in 0..MaxLen :
          tracks = [i \in 1..n |-> [file_path |-> i, metadata |-> MetadataAt(i + 1)]]
    /\ batch_size \in (1..MaxBatchSize) \cup {BatchSize}
    /\ pc = "batch"
    /\ api_key = TRUE
    /\ workers = 1
    /\ dry_run = FALSE
    /\ all_files = <<>>
    /\ files = <<>>
    /\ service = "pool"
    /\ batches = <<>>
    /\ total_batches = 0
    /\ fut = <<>>
    /\ merge_log = <<>>
    /\ ai_metadata = EmptyDict
    /\ idx = 0
    /\ reports = <<>>
    /\ upd = NoUpdate

SpecBatch == InitBatch /\ [][MakeBatches]_vars

-----------------------------------------------------------------------------
(* Reconciliation alone: the reporting loop on one file, listed once or      *)
(* twice, over results of every shape and files of both tag formats          *)

Str(a) == JStr(<<a>>)
Obj1(name, value) == JObj(<<Pair(name, value)>>)

\* the values ai_metadata may hold for a key
Values ==
    << TagsA,
       TagsB,
       JObj(<<Pair("genres", JList(<<House, Str("90s"), House>>)),
              Pair("region", JList(<<House>>)),
              Pair("era", Str("90s"))>>),
       JObj(<<Pair("genres", JList(<<JStr(<<"Deep", SEP, "House">>)>>)),
              Pair("era", Str("90s"))>>),
       JObj(<<Pair("genres", JList(<<JStr(<<SPACE, "House">>)>>))>>),
       JObj(<<Pair("genres", JList(<<House>>)), Pair("era", Str("90s"))>>),
       JObj(<<>>),
       JObj(<<Pair("genres", JList(<<>>))>>),
       JNull,
       JNum("7"),
       Str("genres"),
       Str("House"),
       JList(<<House>>),
       Obj1("genres", JNull),
       Obj1("genres", House),
       Obj1("genres", JList(<<JList(<<House>>)>>)),
       Obj1("genres", Obj1("House", JNum("1"))),
       Obj1("region", JNull),
       Obj1("era", JNull),
       Obj1("era", JList(<<Str("90s")>>)),
       JObj(<<Pair("genres", JList(<<House>>)), Pair("era", JNum("1990"))>>) >>

\* the genre texts a file may hold
GenreTexts ==
    { <<>>,
      <<"Techno">>,
      <<"House", SEP, "90s">>,
      <<"90s", SEP, "House", SEP, "90s">>,
      <<SPACE, "Techno", SPACE, SEP, "House">> }

\* the files: every mutagen file type has an add_tags attribute (FileType
\* declares it), so has_add_tags is TRUE for each of them
TagFiles ==
    { [type |-> ty, has_add_tags |-> TRUE, broken |-> br, tags |-> tg] :
        ty \in {"MP3", "MP4"}, br \in BOOLEAN,
        tg \in {[x \in {} |-> <<>>]}
               \cup {[x \in {fld} |-> txt] : fld \in {TCON, GEN}, txt \in GenreTexts} }

InitTags ==
    /\ \E t \in {[file_path |-> 1, metadata |-> MetadataAt(2)]} :
          tracks \in {<<t>>, <<t, t>>}
    /\ \E f \in TagFiles :
          /\ (f.type = "MP3" => GEN \notin DOMAIN f.tags)
          /\ (f.type = "MP4" => TCON \notin DOMAIN f.tags)
          /\ files = <<f>>
    /\ \/ ai_metadata = EmptyDict
       \/ \E i \in 1..Len(Values) : ai_metadata = [k \in {KeyX} |-> Values[i]]
    /\ dry_run \in BOOLEAN
    /\ pc = "report"
    /\ idx = 0
    /\ reports = <<>>
    /\ upd = NoUpdate
    /\ api_key = TRUE
    /\ workers = 1
    /\ all_files = tracks
    /\ service = "pool"
    /\ batch_size = BatchSize
    /\ batches = <<>>
    /\ total_batches = 0
    /\ fut = <<>>
    /\ merge_log = <<>>

SpecTags == InitTags /\ [][Report \/ Finish]_vars

-----------------------------------------------------------------------------
(* Properties *)

Done == {b \in DOMAIN fut : fut[b].st = "done"}

\* C1: a resolver whose attempts all fail with a rate-limit error makes at most
\* 5 service calls; it never raises, and once the 5th call has failed it has
\* returned the empty mapping, so no 6th call follows.
C1_RateLimitBounded ==
    \A b \in DOMAIN fut :
        /\ fut[b].calls <= 5
        /\ (fut[b].rl_only /\ fut[b].calls >= 1) =>
              /\ fut[b].st \in {"running", "done"}
              /\ fut[b].st = "done" => fut[b].value = EmptyDict
              /\ fut[b].calls = 5 => fut[b].st = "done"

C1_Witness ==
    \E b \in DOMAIN fut :
        fut[b].rl_only /\ fut[b].calls = 5 /\ fut[b].st = "done" /\ fut[b].sleeps = 4

\* C2: once a response of a batch held no JSON object, or one that does not
\* parse, the resolver of that batch has returned the empty mapping: it is not
\* running any more, so it makes no further service call.
C2_ParseFailureNotRetried ==
    \A b \in DOMAIN fut :
        fut[b].parse_failed => fut[b].st = "done" /\ fut[b].value = EmptyDict

\* C3: a run that got its pool (workers > 0) ends by returning from main, never
\* by an exception, and then it has reported one outcome for every track.
C3_EveryTrackReported ==
    (workers > 0 /\ pc \in {"done", "raised"}) =>
        (pc = "done" /\ Len(reports) = Len(tracks))

\* C4: a batch whose resolution raises does not end the collection: main goes
\* on until every future is finished and handed over, and then the result
\* mapping holds every key of every batch that returned, and no other key.
C4_RaisingBatchIsolated ==
    /\ (pc = "raised" /\ fut # <<>>) => Merged = DOMAIN fut
    /\ pc \in {"report", "done"} =>
          /\ Finished = DOMAIN fut
          /\ Merged = DOMAIN fut
          /\ \A b \in Done : DOMAIN fut[b].value \subseteq DOMAIN ai_metadata
          /\ DOMAIN ai_metadata \subseteq UNION {DOMAIN fut[b].value : b \in Done}

C4_Witness ==
    /\ pc = "done"
    /\ \E b \in DOMAIN fut : fut[b].st = "raised"
    /\ \E b \in Done : fut[b].value # EmptyDict /\ merge_log[1] # b
    /\ ai_metadata # EmptyDict

\* a TagResult as the prompt asks for it
IsStrList(x) == x.t = "list" /\ \A i \in 1..Len(x.v) : x.v[i].t = "str"
WellFormed(m) ==
    /\ m.t = "obj"
    /\ \A i \in 1..Len(m.v) :
          /\ m.v[i].k \in {"genres", "region", "era"}
          /\ \A j \in 1..Len(m.v) : m.v[j].k = m.v[i].k => j = i
          /\ m.v[i].k = "genres" => IsStrList(m.v[i].val)
          /\ m.v[i].k = "region" => IsStrList(m.v[i].val) \/ m.v[i].val.t = "str"
          /\ m.v[i].k = "era" => m.v[i].val.t = "str"

\* the positions of merge_log at which a batch that returned key was merged
Writers(key) ==
    {i \in 1..Len(merge_log) :
        fut[merge_log[i]].st = "done" /\ key \in DOMAIN fut[merge_log[i]].value}

\* C5: the result mapping holds, for every key, the value of the batch merged
\* last among the batches that returned the key, whatever the order of the
\* merges; and a run never fails on a key whose value is a TagResult.
C5_LastWriteWins ==
    /\ \A key \in DOMAIN ai_metadata :
          /\ Writers(key) # {}
          /\ \E i \in Writers(key) :
                /\ \A j \in Writers(key) : j <= i
                /\ ai_metadata[key] = fut[merge_log[i]].value[key]
    /\ (pc = "raised" /\ fut # <<>>) =>
          /\ Merged = DOMAIN fut
          /\ idx < Len(tracks)
          /\ TrackKey(tracks[idx + 1]) \in DOMAIN ai_metadata
          /\ ~WellFormed(ai_metadata[TrackKey(tracks[idx + 1])])

C5_Witness ==
    /\ pc = "done"
    /\ Len(merge_log) = 2
    /\ merge_log[1] = 2
    /\ \A b \in {1, 2} : fut[b].st = "done" /\ KeyX \in DOMAIN fut[b].value
    /\ fut[1].value[KeyX] = TagsA
    /\ fut[2].value[KeyX] = TagsB
    /\ ai_metadata[KeyX] = TagsA

RECURSIVE Concat(_)
Concat(bs) == IF bs = <<>> THEN <<>> ELSE Head(bs).batch \o Concat(Tail(bs))

\* C6: the batches, concatenated in batch order, are the track list.
C6_BatchingLossless ==
    pc = "pool" => Concat(batches) = tracks

C6_Witness ==
    /\ pc = "pool"
    /\ Len(batches) >= 3
    /\ Len(batches[Len(batches)].batch) < batch_size
    /\ batch_size > 1

\* the least k with k * B >= n
CeilDiv(n, B) == CHOOSE k \in 0..n : k * B >= n /\ \A h \in 0..n : h * B >= n => k <= h

\* C7: there are ceil(N/B) batches, as many as total_batches says, each of 1..B
\* tracks, numbered 1, 2, ... in order.
C7_BatchCount ==
    pc = "pool" =>
        /\ Len(batches) = CeilDiv(Len(tracks), batch_size)
        /\ total_batches = Len(batches)
        /\ \A i \in 1..Len(batches) :
              /\ Len(batches[i].batch) \in 1..batch_size
              /\ batches[i].batch_num = i

C7_Witness ==
    /\ pc = "pool"
    /\ Len(tracks) % batch_size # 0
    /\ Len(batches) >= 2
    /\ total_batches = Len(tracks) \div batch_size + 1

\* the step in which the resolver of batch b sleeps once more
Sleeps(b) ==
    b \in DOMAIN fut /\ b \in DOMAIN fut' /\ fut'[b].sleeps = fut[b].sleeps + 1

\* C8 as claimed: ignoring jitter, no wait of a resolver is shorter than the
\* wait before it.
C8_BackoffMonotone ==
    [][\A b \in 1..MaxBatches :
          (Sleeps(b) /\ fut[b].sleeps >= 1) => fut'[b].nojitter >= fut[b].nojitter]_vars

\* C8 as amended: ignoring jitter, the k-th wait (k = 0, 1, ...) is at least
\* 1000 * 2^k ms, and it is not shorter than the wait before it unless an
\* earlier error of the batch carried a server-suggested wait time.
C8_BackoffMonotoneUnhinted ==
    [][\A b \in 1..MaxBatches :
          Sleeps(b) =>
              /\ fut'[b].nojitter >= 1000 * Pow2(fut[b].sleeps)
              /\ (fut[b].sleeps >= 1 /\ ~fut[b].hinted) =>
                    fut'[b].nojitter >= fut[b].nojitter]_vars

C8_Witness ==
    \E b \in DOMAIN fut :
        fut[b].sleeps = 4 /\ ~fut[b].hinted /\ fut[b].nojitter = 8000

\* the items of field `name` of a TagResult, in response order
FieldItems(m, name) ==
    IF \E i \in 1..Len(m.v) : m.v[i].k = name
    THEN LET x == (CHOOSE p \in {m.v[i] : i \in 1..Len(m.v)} : p.k = name).val
         IN  IF x.t = "list" THEN x.v ELSE <<x>>
    ELSE <<>>

\* genres, then region, then era
NewTags(m) == FieldItems(m, "genres") \o FieldItems(m, "region") \o FieldItems(m, "era")

\* xs without the elements that occurred earlier in xs
KeepFirst(xs) ==
    LET firsts == {i \in 1..Len(xs) : \A j \in 1..(i - 1) : xs[j] # xs[i]}
        nth(n) == CHOOSE i \in firsts : Cardinality({j \in firsts : j < i}) = n - 1
    IN  [n \in 1..Cardinality(firsts) |-> xs[nth(n)]]

\* the genre field of a file: TCON in an ID3 file, (c)gen in an MP4 file
FileGenre(f) ==
    LET field == IF f.type = "MP4" THEN GEN ELSE TCON
    IN  IF field \in DOMAIN f.tags THEN f.tags[field] ELSE <<>>

\* the genre tags a file holds: the pieces of its genre field
FileTags(f) ==
    IF FileGenre(f) # <<>> THEN StrsOf(SplitStrip(FileGenre(f))) ELSE <<>>

\* C9: when a track's result is a TagResult and its tags are written, the
\* genre field of the file afterwards is the ' - ' joined list of its tags
\* before in their order, followed by the genres, the regions and the era,
\* each tag kept where it occurs first.
C9_TagListOrderLaw ==
    [][(pc = "report" /\ idx' = idx + 1 /\ reports'[idx'] = "added") =>
          LET track == tracks[idx']
              m == ai_metadata[TrackKey(track)]
          IN  WellFormed(m) =>
                 FileGenre(files'[track.file_path]) =
                     Join(TextsOf(KeepFirst(FileTags(files[track.file_path]) \o NewTags(m))))]_vars

NoDuplicates(xs) == \A i, j \in 1..Len(xs) : JEq(xs[i], xs[j]) => i = j

C11_ResolverNeverRaises ==
    \A b \in DOMAIN fut : fut[b].st # "raised"

\* the text of the exception the attempt on outcome o raises, <<>> when none
ExceptionText(o) ==
    IF o.kind = "error" THEN o.msg ELSE ParseResponse(o.resp).msg

\* C12: a service error that is not classified as a rate limit ends the
\* resolver in the step of that call, with the empty mapping and without a
\* wait; the resolver of that batch does nothing afterwards; and a resolver
\* waits and retries only on an exception classified as a rate limit.
C12_OtherErrorNotRetried ==
    [][\A b \in 1..MaxBatches :
          (b \in DOMAIN fut /\ b \in DOMAIN fut') =>
              /\ fut[b].other_error => fut'[b] = fut[b]
              /\ (~fut[b].other_error /\ fut'[b].other_error) =>
                    /\ fut'[b].st = "done"
                    /\ fut'[b].value = EmptyDict
                    /\ fut'[b].calls = fut[b].calls + 1
                    /\ fut'[b].sleeps = fut[b].sleeps
              /\ Sleeps(b) =>
                    \A i \in 1..Len(Outcomes(service)), jitter \in Jitters :
                        fut'[b] = AfterAttempt(fut[b], Outcomes(service)[i], jitter) =>
                            IsRateLimit(ExceptionText(Outcomes(service)[i]))]_vars

C12_Witness ==
    \E b \in DOMAIN fut :
        /\ fut[b].other_error
        /\ fut[b].st = "done"
        /\ fut[b].calls = 3
        /\ fut[b].sleeps = 2

\* the reconciliation has begun: a track was looked up or reported, or a file
\* was written
Reconciling ==
    \/ pc \in {"report", "done"}
    \/ idx > 0
    \/ reports # <<>>
    \/ upd # NoUpdate
    \/ files # [i \in DOMAIN files |-> FileAt(i)]

AllMerged == Finished = DOMAIN fut /\ Merged = DOMAIN fut /\ Len(merge_log) = Len(fut)

\* C13: whenever the reconciliation has begun, every batch has finished
\* (returned or raised) and has been handed to main exactly once, and from
\* then on no step changes ai_metadata.
C13_ReconciliationBarrier ==
    [][/\ Reconciling => (AllMerged /\ ai_metadata' = ai_metadata)
       /\ Reconciling' => AllMerged']_vars

C13_Witness ==
    /\ pc = "report"
    /\ idx >= 1
    /\ Len(merge_log) = 2
    /\ \E b \in DOMAIN fut : fut[b].st = "raised"
    /\ ai_metadata # EmptyDict

\* C14: every step that changes ai_metadata is main's merge of the whole
\* mapping of one finished, not yet merged batch; no step of a worker (a step
\* that changes a future) changes ai_metadata or merges, and no step merges
\* more than one batch.
C14_MergeAtomicPerBatch ==
    [][/\ ai_metadata' # ai_metadata =>
             /\ pc = "collect"
             /\ fut' = fut
             /\ \E b \in Finished \ Merged :
                   /\ fut[b].st = "done"
                   /\ merge_log' = Append(merge_log, b)
                   /\ ai_metadata' = DictUpdate(ai_metadata, fut[b].value)
       /\ fut' # fut => (ai_metadata' = ai_metadata /\ merge_log' = merge_log)
       /\ Len(merge_log') <= Len(merge_log) + 1]_vars

C14_Witness ==
    /\ Len(merge_log) = 1
    /\ Running # {}
    /\ ai_metadata # EmptyDict

\* C15: never more resolver invocations are in progress than there are
\* workers, a pending batch waits while every worker is inside an invocation
\* (its sleeps included), and a result is merged only when every batch has
\* been submitted.
C15_BoundedWorkers ==
    /\ Cardinality(Running) <= workers
    /\ merge_log # <<>> => Submitted = DOMAIN fut
    /\ pc = "submit" => merge_log = <<>>

C15_Witness ==
    /\ Cardinality(Running) = workers
    /\ \E b \in DOMAIN fut : fut[b].st = "pending"
    /\ \E c \in Running : fut[c].sleeps >= 1

\* C16: in every step of the reporting loop on a track, the writer is invoked
\* (the outcome is "added" or "failed") only if the track's key is in
\* ai_metadata and its flattened tags are not empty; a track whose key is
\* absent is reported "no_ai_metadata", one with no tags "no_tags", and in both
\* cases no file changes; a file changes only for a track reported "added",
\* and it is that track's file.
C16_WriterOnlyForTaggedTracks ==
    [][(pc = "report" /\ idx < Len(tracks)) =>
          LET track == tracks[idx + 1]
              key == TrackKey(track)
              present == key \in DOMAIN ai_metadata
              o == IF pc' = "raised" THEN "raised" ELSE reports'[idx + 1]
          IN  /\ o \in {"added", "failed"} =>
                    /\ present
                    /\ ~FlattenTags(ai_metadata[key]).err
                    /\ FlattenTags(ai_metadata[key]).tags # <<>>
              /\ ~present => (o = "no_ai_metadata" /\ files' = files)
              /\ (present /\ ~FlattenTags(ai_metadata[key]).err
                          /\ FlattenTags(ai_metadata[key]).tags = <<>>) =>
                    (o = "no_tags" /\ files' = files)
              /\ files' # files =>
                    /\ o = "added"
                    /\ \A p \in DOMAIN files : p # track.file_path => files'[p] = files[p]]_vars

\* the two-track scenario: the first track's key is in the response and its
\* file gets the tags, the second track's key is missing and its file is left
\* as it was
C16_Witness ==
    /\ Len(reports) >= 2
    /\ reports[1] = "added"
    /\ reports[2] = "no_ai_metadata"
    /\ ai_metadata # EmptyDict
    /\ files[tracks[1].file_path] # FileAt(tracks[1].file_path)
    /\ files[tracks[2].file_path] = FileAt(tracks[2].file_path)

\* the outcome of track i in a run that is not a dry run, on ai_metadata
NonDryOutcome(i) ==
    ReportTrack(tracks[i], ai_metadata, FALSE, FileAt(tracks[i].file_path)).outcome

\* the tracks for which a run that is not a dry run invokes the writer: those
\* it reaches whose tags are handed to update_genre_tag
WriterInvoked ==
    {i \in 1..Len(tracks) :
        /\ \A j \in 1..(i - 1) : NonDryOutcome(j) # "raised"
        /\ NonDryOutcome(i) \in {"added", "failed"}}

WouldAdd == {i \in 1..Len(reports) : reports[i] = "would_add"}

\* C17: in a dry run no file differs from what it was at the start and no
\* track is reported as written; and when the run has ended, the tracks
\* reported "would add tags" are those for which a run that is not a dry run
\* invokes the writer on the same ai_metadata.
C17_DryRunMirrorsWriter ==
    dry_run =>
        /\ files = [i \in DOMAIN files |-> FileAt(i)]
        /\ upd = NoUpdate
        /\ \A i \in 1..Len(reports) : reports[i] \notin {"added", "failed"}
        /\ (pc \in {"done", "raised"} /\ fut # <<>>) => WouldAdd = WriterInvoked

\* C18: while a resolver sleeps after its k-th rate-limited attempt (k = 0..3),
\* its wait is max(1000 * 2^k + jitter, the wait the error text asked for) for
\* a jitter in [0, 1000): at least 1000 * 2^k, and at least the wait the
\* server asked for.
C18_WaitNotBelowServerWait ==
    \A b \in DOMAIN fut :
        (fut[b].st = "running" /\ fut[b].sleeps >= 1) =>
            LET k == fut[b].sleeps - 1
            IN  /\ k \in 0..3
                /\ \E jitter \in 0..999 :
                      fut[b].wait_time = Max(1000 * Pow2(k) + jitter, fut[b].server_wait)
                /\ fut[b].wait_time >= 1000 * Pow2(k)
                /\ fut[b].wait_time >= fut[b].server_wait

\* there is no API key, or no file has readable metadata
ConfigError == ~api_key \/ ReadableTracks(all_files) = <<>>

\* C19: a run with a configuration error never gets past the two checks: no
\* batch is created, no future exists, nothing is merged or reported; and the
\* run exits with status 1 only on a configuration error.
C19_ConfigErrorExitsEarly ==
    /\ ConfigError =>
          /\ pc \in {"start", "read", "exit"}
          /\ batches = <<>>
          /\ total_batches = 0
          /\ fut = <<>>
          /\ ai_metadata = EmptyDict
          /\ reports = <<>>
    /\ pc = "exit" => ConfigError

C19_Witness ==
    /\ pc = "exit"
    /\ api_key
    /\ Len(all_files) = 1
    /\ tracks = <<>>

\* the calls and waits of every resolver are in step: at most 5 calls and 4
\* waits, a finished resolver has made 1..5 calls with a wait between each
\* two, and a resolver that got a response has returned
CallsInStep ==
    \A b \in DOMAIN fut :
        /\ fut[b].calls <= 5
        /\ fut[b].sleeps <= 4
        /\ fut[b].st \in {"unsubmitted", "pending"} => fut[b].calls = 0
        /\ fut[b].st = "running" => fut[b].sleeps = fut[b].calls
        /\ fut[b].st \in {"done", "raised"} =>
              (fut[b].calls \in 1..5 /\ fut[b].sleeps = fut[b].calls - 1)
        /\ fut[b].responded => fut[b].st = "done"

\* C20: a batch becomes pending only from not being submitted, every batch
\* is submitted when the collection starts, and after every step the calls and
\* waits of every resolver are in step.
C20_OneSubmitBoundedCalls ==
    [][/\ CallsInStep'
       /\ \A b \in 1..MaxBatches :
             (b \in DOMAIN fut /\ b \in DOMAIN fut'
                /\ fut'[b].st = "pending" /\ fut[b].st # "pending") =>
                   (fut[b].st = "unsubmitted" /\ pc = "submit")
       /\ pc' \in {"collect", "report", "done"} => Submitted' = DOMAIN fut']_vars

====
